---- MODULE Spec2Model ----
(***************************************************************************)
(* The application registry ("container") of src/core/application.ts:     *)
(* the identity-keyed cache of application handles, createApplication,     *)
(* loadFromConfigurations (reconciliation against the persisted           *)
(* configuration), setAppsToContainer (upsert) and the lookups.            *)
(*                                                                         *)
(* The Configuration Accessor (readConfigFile, writeConfigApplication,     *)
(* detachConfigApplication), the application classes (Tomcat, SpringBoot)  *)
(* and their base class (config, getProperties, setConfig, getId) are      *)
(* imported by application.ts and are modelled from their contract.        *)
(***************************************************************************)
EXTENDS Naturals, Sequences, FiniteSets

----------------------------------------------------------------------------
(* Bounds of the model *)

NumIds == 2        \* application ids supplied by callers and records: 1..NumIds
MaxApps == 2       \* longest persisted list, longest list given to setAppsToContainer
MaxObjs == 2       \* handles constructed in one behaviour
MaxProps == 2      \* longest property list given to the merge

----------------------------------------------------------------------------
(* Values *)

AppTypes == {"TOMCAT", "SPRING_BOOT"}

\* Type tags that reach the registry: the enum's members and one tag outside it.
TypeTags == AppTypes \cup {"UNKNOWN"}

\* Tags callers of createApplication pass; persisted records carry the other kind.
CallerTags == {"SPRING_BOOT", "UNKNOWN"}

NoValidAppType == "E_AP_NVAT"
NotFoundWorkspace == "E_AP_NFWS"
NotAvailablePort == "E_AP_NAVP"
InaccessibleResources == "E_AP_IACR"
NoError == "ok"

NoUri == "undefined"
Uris == {"file:///ws"}

Ids == 1..NumIds
NoId == 0
\* "App" + Date.now(): the id the clock reading names. Persisted ids were generated
\* the same way, so it is an id of the same space.
GeneratedId(now) == now

EmptyPath == ""
AppPaths == {EmptyPath, "/srv/app"}

Prop(k, v, c) == [key |-> k, value |-> v, changeable |-> c]

SeqsUpTo(S, n) == UNION {[1..k -> S] : k \in 0..n}

\* The kind-default property set of a freshly constructed handle.
Template(type) ==
    IF type = "TOMCAT"
    THEN <<Prop("port", 8080, TRUE)>>
    ELSE <<Prop("port", 8080, TRUE), Prop("war", 0, FALSE)>>

\* The property list of a persisted record: the user changed the port.
PersistedProps == <<Prop("port", 9090, TRUE)>>

ConfigApplication(id, type, appPath, properties) ==
    [id |-> id, type |-> type, appPath |-> appPath, properties |-> properties]

\* Persisted records: for every id, one with an appPath and one without.
PersistedRecords ==
    {ConfigApplication(i, "TOMCAT", p, PersistedProps) : i \in Ids, p \in AppPaths}

PersistedLists == SeqsUpTo(PersistedRecords, MaxApps)

----------------------------------------------------------------------------
(* State *)

VARIABLES
    uri,         \* container.uri: NoUri until initialize
    _cache,      \* container._cache: sequence of handles
    store,       \* the persisted application records (config.apps on disk)
    inflight,    \* ids whose detachConfigApplication was issued and has not yet landed
    detachSync,  \* whether detachConfigApplication settles without suspending
    nextObj,     \* identity of the next handle object constructed
    held,        \* the handle createApplication returned, until its caller registers it
    last,        \* the last registry call: operation, argument, outcome
    mpc, pure, prev, merged,  \* the property merge applied to given lists
    rpc, code, msg, rendered, \* an ApplicationError (code as a list of at most one) and its toString()
    calls        \* the loadFromConfigurations calls in progress: position and locals

vars == <<uri, _cache, store, inflight, detachSync, nextObj, held, last, mpc, pure, prev, merged,
          rpc, code, msg, rendered, calls>>

mergeVars == <<mpc, pure, prev, merged>>

renderVars == <<rpc, code, msg, rendered>>

\* A registry call as its caller sees it: the operation, the error thrown (NoError
\* when it returned), and for loadFromConfigurations the mode, the number of
\* handles line 129 cleared, the ids init() was invoked for and the ids
\* detachConfigApplication was called with.
Call(op, err, exactly, cleared, inited, detached) ==
    [op |-> op, err |-> err, exactly |-> exactly, cleared |-> cleared,
     inited |-> inited, detached |-> detached]

Plain(op, err) == Call(op, err, FALSE, 0, {}, {})

----------------------------------------------------------------------------
(* Error taxonomy *)

FatalFailure == "E_AP_FAIL"
NotReady == "E_AP_NTRY"
NotFound == "E_AP_NTFN"
NotFoundTargetDeploy == "E_AP_NFTD"
NotMatchConfDeploy == "E_AP_NMSC"
InvalidInternalResource == "E_AP_IVIR"

ErrorCodes ==
    {FatalFailure, NotReady, NotFound, NotFoundTargetDeploy, NotMatchConfDeploy,
     NotFoundWorkspace, NoValidAppType, NotAvailablePort, InaccessibleResources,
     InvalidInternalResource}

\* The message table of ../messages: every code of the taxonomy has a message.
existsCode(c) == c \in ErrorCodes

getMessage(c) == "message of " \o c

\* new ApplicationError(msg, code?): code is <<>> when the argument is left out.
ApplicationError(m, c) == [msg |-> m, code |-> c]

\* toString() without the branch of lines 85-86.
toStringWithoutFallback(e) ==
    IF e.code # <<>> /\ e.code[1] # "" /\ existsCode(e.code[1])
    THEN getMessage(e.code[1]) \o (IF e.msg # "" THEN " (" \o e.msg \o ")" ELSE "")
    ELSE e.msg

\* ApplicationError.toString()
toString(e) ==
    IF e.code # <<>> /\ e.code[1] # "" /\ existsCode(e.code[1])
    THEN getMessage(e.code[1]) \o (IF e.msg # "" THEN " (" \o e.msg \o ")" ELSE "")
    ELSE IF existsCode(e.msg) THEN getMessage(e.msg)
    ELSE e.msg

----------------------------------------------------------------------------
(* Handles *)

\* new App(id, uri): a handle with its kind's default config, not initialized.
NewApp(type, id, u, obj) ==
    [obj |-> obj, uri |-> u, type |-> type, status |-> "stop", inits |-> 0,
     config |-> ConfigApplication(id, type, EmptyPath, Template(type))]

getId(app) == app.config.id

setConfig(app, config) == [app EXCEPT !.config = config]

init(app) == [app EXCEPT !.inits = @ + 1]

\* AppTypes[config.type as AppTypes]: the enum member named by the tag, or undefined.
EnumLookup(tag) == IF tag \in AppTypes THEN tag ELSE "undefined"

----------------------------------------------------------------------------
(* Kind registry and construction *)

Thrown(err) == [err |-> err, app |-> <<>>]
Returned(app) == [err |-> NoError, app |-> <<app>>]

\* findClassModule whose default case returns a class instead of throwing.
findClassModuleDefaultsToTomcat(type) ==
    IF type = "SPRING_BOOT" THEN [err |-> NoError, cls |-> "SPRING_BOOT"]
    ELSE [err |-> NoError, cls |-> "TOMCAT"]

\* findClassModule: the class of a registered kind; any other tag throws.
findClassModule(type) ==
    IF type = "TOMCAT" THEN [err |-> NoError, cls |-> "TOMCAT"]
    ELSE IF type = "SPRING_BOOT" THEN [err |-> NoError, cls |-> "SPRING_BOOT"]
    ELSE [err |-> NoValidAppType, cls |-> "undefined"]

\* createApplication without the guard of line 121.
createApplicationResultUnguarded(u, type, id, now, obj) ==
    LET id1 == IF id = NoId THEN GeneratedId(now) ELSE id
        App == findClassModule(type)
    IN  IF App.err # NoError THEN Thrown(App.err)
        ELSE Returned(NewApp(App.cls, id1, u, obj))

\* createApplication constructing the handle without the workspace uri.
createApplicationResultUnbound(u, type, id, now, obj) ==
    IF u = NoUri THEN Thrown(NotFoundWorkspace)
    ELSE LET id1 == IF id = NoId THEN GeneratedId(now) ELSE id
             App == findClassModule(type)
         IN  IF App.err # NoError THEN Thrown(App.err)
             ELSE Returned(NewApp(App.cls, id1, NoUri, obj))

\* createApplication(type, id) with the workspace uri u, Date.now() reading now,
\* constructing object obj: the handle returned or the error thrown.
createApplicationResult(u, type, id, now, obj) ==
    IF u = NoUri THEN Thrown(NotFoundWorkspace)
    ELSE LET id1 == IF id = NoId THEN GeneratedId(now) ELSE id
             App == findClassModule(type)
         IN  IF App.err # NoError THEN Thrown(App.err)
             ELSE Returned(NewApp(App.cls, id1, u, obj))

----------------------------------------------------------------------------
(* Property merge *)

\* prev.some(pv => pv.key === p.key && !!pv.changeable)
SomeChangeable(pv, key) ==
    \E j \in 1..Len(pv) : pv[j].key = key /\ pv[j].changeable

\* prev.find(pv => pv.key === p.key)!: the first entry with the key.
FindByKey(pv, key) ==
    pv[CHOOSE j \in 1..Len(pv) :
          pv[j].key = key /\ \A k \in 1..(j - 1) : pv[k].key # key]

\* A merge that also keeps the persisted entries whose key the template lacks.
MergePropertiesKeepingPersisted(p, pv) ==
    [i \in 1..Len(p) |->
        IF SomeChangeable(pv, p[i].key) THEN FindByKey(pv, p[i].key) ELSE p[i]]
    \o SelectSeq(pv, LAMBDA e : \A i \in 1..Len(p) : p[i].key # e.key)

\* pure.map(p => some(...) ? find(...) : p)
MergeProperties(p, pv) ==
    [i \in 1..Len(p) |->
        IF SomeChangeable(pv, p[i].key) THEN FindByKey(pv, p[i].key) ELSE p[i]]

\* _initializeApplication(config): construct, assign the persisted config, merge the
\* properties, init. initOk says whether init() resolves; constructed and inited
\* tell how far the call got.
_initializeApplication(u, config, obj, initOk) ==
    LET r == createApplicationResult(u, EnumLookup(config.type), config.id, 0, obj)
    IN  IF r.err # NoError
        THEN [err |-> r.err, app |-> <<>>, constructed |-> 0, inited |-> {}]
        ELSE LET app0 == r.app[1]
                 tpl == app0.config.properties
                 app1 == setConfig(app0, config)
                 app2 == [app1 EXCEPT !.config.properties = MergeProperties(tpl, config.properties)]
             IN  IF initOk
                 THEN [err |-> NoError, app |-> <<init(app2)>>, constructed |-> 1,
                       inited |-> {config.id}]
                 ELSE [err |-> NotAvailablePort, app |-> <<>>, constructed |-> 1,
                       inited |-> {config.id}]

----------------------------------------------------------------------------
(* Upsert *)

\* _cache.some(_a => _a.getId() === id)
Cached(cache, id) == \E i \in 1..Len(cache) : getId(cache[i]) = id

\* index of _cache.find(_a => _a.getId() === id)
FindIndex(cache, id) ==
    CHOOSE i \in 1..Len(cache) :
        getId(cache[i]) = id /\ \A k \in 1..(i - 1) : getId(cache[k]) # id

\* The upsert branch putting the incoming handle in the cached one's place.
UpsertOneReplacing(cache, app) ==
    IF Cached(cache, getId(app))
    THEN [cache EXCEPT ![FindIndex(cache, getId(app))] = app]
    ELSE Append(cache, app)

\* The upsert branch with line 172 (temp.init()) live.
UpsertOneReinit(cache, app) ==
    IF Cached(cache, getId(app))
    THEN [cache EXCEPT ![FindIndex(cache, getId(app))] = init(setConfig(@, app.config))]
    ELSE Append(cache, app)

\* The forEach body without its upsert branch: every incoming handle is pushed.
UpsertOnePushing(cache, app) == Append(cache, app)

\* One iteration of the forEach of setAppsToContainer.
UpsertOne(cache, app) ==
    IF Cached(cache, getId(app))
    THEN [cache EXCEPT ![FindIndex(cache, getId(app))] = setConfig(@, app.config)]
    ELSE Append(cache, app)

RECURSIVE UpsertAll(_, _, _)
UpsertAll(cache, apps, i) ==
    IF i > Len(apps) THEN cache
    ELSE UpsertAll(UpsertOne(cache, apps[i]), apps, i + 1)

\* setAppsToContainer pushing every incoming handle.
setAppsToContainerResultPushingAll(cache, apps) == cache \o apps

\* setAppsToContainer(apps): the cache after the call.
setAppsToContainerResult(cache, apps) == UpsertAll(cache, apps, 1)

----------------------------------------------------------------------------
(* Configuration Accessor *)

\* readConfigFile(): config.apps
readConfigFile(persisted) == persisted

\* detachConfigApplication(id): the record with that id leaves the persisted list.
detachConfigApplication(persisted, id) ==
    SelectSeq(persisted, LAMBDA a : a.id # id)

DetachAll(persisted, ids) ==
    SelectSeq(persisted, LAMBDA a : a.id \notin ids)

\* writeConfigApplication(configs): replaces the persisted application records.
writeConfigApplication(persisted, configs) == configs

----------------------------------------------------------------------------
(* Reconciliation *)

\* The ids the prune pass calls detachConfigApplication with (lines 131-134).
EmptyPathIds(apps) ==
    {apps[i].id : i \in {j \in 1..Len(apps) : apps[j].appPath = EmptyPath}}

\* config.apps as .filter(app => app !== undefined) of line 140 sees it. Line 135
\* runs in the forEach callback after its await; the forEach itself returns
\* undefined, so line 132 waits one tick only: the entry is undefined by then iff
\* detachConfigApplication settled without suspending.
Pruned(apps, settled) ==
    IF settled THEN SelectSeq(apps, LAMBDA a : a.appPath # EmptyPath) ELSE apps

\* The selection pass without the filter of line 141.
SelectedIgnoringCache(apps, cache) == apps

\* .filter(app => !_cache.some(loaded => loaded.getId() === app.id))
Selected(apps, cache) ==
    SelectSeq(apps, LAMBDA a : ~Cached(cache, a.id))

NoneYet == [err |-> NoError, apps |-> <<>>, constructed |-> 0, inited |-> {}]

\* The for loop of lines 145-147: the first throw ends it. failAt is the position
\* whose init() rejects (0: none).
RECURSIVE InitializeAll(_, _, _, _, _, _)
InitializeAll(u, cfgs, i, obj, failAt, acc) ==
    IF i > Len(cfgs) THEN acc
    ELSE LET r == _initializeApplication(u, cfgs[i], obj, failAt # i)
             acc1 == [err |-> r.err, apps |-> acc.apps \o r.app,
                      constructed |-> acc.constructed + r.constructed,
                      inited |-> acc.inited \cup r.inited]
         IN  IF r.err # NoError THEN acc1
             ELSE InitializeAll(u, cfgs, i + 1, obj + r.constructed, failAt, acc1)

Configs(apps) == [i \in 1..Len(apps) |-> apps[i].config]

\* Line 129 without its effect.
ClearNever(cache, exactly) == cache

\* if (exactly) { _cache.length = 0; }
ClearIfExactly(cache, exactly) == IF exactly THEN <<>> ELSE cache

----------------------------------------------------------------------------
(* A loadFromConfigurations call between its suspension points *)

\* Two callers, each making one call; the second calls after the first has.
Callers == {"first", "second"}

\* The locals of a call: where it is suspended (pc), its argument, config.apps as
\* read, appConfigs, apps, the handle objects it constructed, the list it passed
\* to writeConfigApplication once that resolved (as a list of at most one) and
\* the error it threw.
IdleCall ==
    [pc |-> "idle", exactly |-> FALSE, config |-> <<>>, appConfigs |-> <<>>,
     apps |-> <<>>, objs |-> {}, written |-> <<>>, err |-> NoError]

\* The for loop of lines 145-147 is over: line 149 calls writeConfigApplication.
AfterSelection(appConfigs, apps) ==
    IF Len(apps) = Len(appConfigs) THEN "write" ELSE "init"

\* Line 150 reached although writeConfigApplication rejected.
AfterWriteIgnoringFailure(ok) == "commit"

\* await accessor.writeConfigApplication(...): line 150 follows when it resolves,
\* the call throws when it rejects.
AfterWrite(ok) == IF ok THEN "commit" ELSE "failed"

----------------------------------------------------------------------------
(* Operations *)

\* The host supplies the workspace location once, at activation.
initialize(u) ==
    /\ uri = NoUri
    /\ uri' = u
    /\ last' = Plain("initialize", NoError)
    /\ UNCHANGED <<_cache, store, inflight, detachSync, nextObj, held, mergeVars, renderVars, calls>>

reset ==
    /\ _cache' = <<>>
    /\ last' = Plain("reset", NoError)
    /\ UNCHANGED <<uri, store, inflight, detachSync, nextObj, held, mergeVars, renderVars, calls>>

createApplication(type, id) ==
    \E now \in (IF id = NoId THEN Ids ELSE {id}) :
        LET r == createApplicationResult(uri, type, id, now, nextObj)
        IN  /\ r.err = NoError => nextObj <= MaxObjs /\ held = {}
            /\ held' = held \cup {r.app[i] : i \in 1..Len(r.app)}
            /\ nextObj' = nextObj + Len(r.app)
            /\ last' = Plain("createApplication", r.err)
            /\ UNCHANGED <<uri, _cache, store, inflight, detachSync, mergeVars, renderVars, calls>>

loadFromConfigurations(exactly) ==
    LET config == readConfigFile(store)
        cache0 == ClearIfExactly(_cache, exactly)
        issued == EmptyPathIds(config)
        appConfigs == Selected(Pruned(config, detachSync), cache0)
        persisted == IF detachSync THEN DetachAll(store, issued) ELSE store
        flying == IF detachSync THEN inflight ELSE inflight \cup issued
    IN  \E failAt \in 0..Len(appConfigs), writeOk \in BOOLEAN :
            LET r == InitializeAll(uri, appConfigs, 1, nextObj, failAt, NoneYet)
                err == IF r.err # NoError THEN r.err
                       ELSE IF writeOk THEN NoError ELSE InaccessibleResources
            IN  /\ nextObj + r.constructed <= MaxObjs + 1
                /\ nextObj' = nextObj + r.constructed
                /\ IF err = NoError
                   THEN \E landed \in SUBSET flying :
                            /\ store' = writeConfigApplication(persisted, Configs(r.apps))
                            /\ inflight' = flying \ landed
                            /\ _cache' = setAppsToContainerResult(cache0, r.apps)
                   ELSE /\ store' = persisted
                        /\ inflight' = flying
                        /\ _cache' = cache0
                /\ last' = Call("loadFromConfigurations", err, exactly,
                                Len(_cache) - Len(cache0), r.inited, issued)
                /\ UNCHANGED <<uri, detachSync, held, mergeVars, renderVars, calls>>

\* A caller registers the handle it constructed (possibly listed more than once)
\* before it constructs another; it keeps no reference to it afterwards.
setAppsToContainer(apps) ==
    /\ apps # <<>>
    /\ \A i \in 1..Len(apps) : apps[i] \in held
    /\ _cache' = setAppsToContainerResult(_cache, apps)
    /\ held' = held \ {apps[i] : i \in 1..Len(apps)}
    /\ last' = Plain("setAppsToContainer", NoError)
    /\ UNCHANGED <<uri, store, inflight, detachSync, nextObj, mergeVars, renderVars, calls>>

\* _cache.find(_a => _a.getId() === id): the handle, as a list of at most one.
getApplicationResult(cache, id) ==
    IF Cached(cache, id) THEN <<cache[FindIndex(cache, id)]>> ELSE <<>>

\* The lookups read the cache and change nothing.
getApplication(id) ==
    /\ getApplicationResult(_cache, id) \in SeqsUpTo({_cache[i] : i \in 1..Len(_cache)}, 1)
    /\ UNCHANGED vars

getApplications ==
    /\ UNCHANGED vars

\* The I/O of a detachConfigApplication issued by the prune pass lands.
DetachLands(id) ==
    /\ id \in inflight
    /\ store' = detachConfigApplication(store, id)
    /\ inflight' = inflight \ {id}
    /\ UNCHANGED <<uri, _cache, detachSync, nextObj, held, last, mergeVars, renderVars, calls>>

----------------------------------------------------------------------------
(* Specification of the registry *)

Init ==
    /\ uri = NoUri
    /\ _cache = <<>>
    /\ store \in PersistedLists
    /\ inflight = {}
    /\ detachSync \in BOOLEAN
    /\ nextObj = 1
    /\ held = {}
    /\ last = Plain("none", NoError)
    /\ mpc = "idle" /\ pure = <<>> /\ prev = <<>> /\ merged = <<>>
    /\ rpc = "idle" /\ code = <<>> /\ msg = "" /\ rendered = ""
    /\ calls = [c \in Callers |-> IdleCall]

Next ==
    \/ \E u \in Uris : initialize(u)
    \/ reset
    \/ \E type \in CallerTags, id \in Ids \cup {NoId} : createApplication(type, id)
    \/ \E exactly \in BOOLEAN : loadFromConfigurations(exactly)
    \/ \E apps \in SeqsUpTo(held, MaxApps) : setAppsToContainer(apps)
    \/ \E id \in Ids : getApplication(id)
    \/ getApplications
    \/ \E id \in Ids : DetachLands(id)

Spec == Init /\ [][Next]_vars

----------------------------------------------------------------------------
(* Specification of the property merge on given lists *)

PropKeys == {"port", "war"}

\* Template entries carry the kind's default value; persisted entries any value.
TemplateProps == {Prop(k, 8080, c) : k \in PropKeys, c \in BOOLEAN}
StoredProps == {Prop(k, v, c) : k \in PropKeys, v \in {8080, 9090}, c \in BOOLEAN}

MergeInit ==
    /\ uri = NoUri
    /\ _cache = <<>>
    /\ store = <<>>
    /\ inflight = {}
    /\ detachSync = FALSE
    /\ nextObj = 1
    /\ held = {}
    /\ last = Plain("none", NoError)
    /\ mpc = "ready"
    /\ pure \in SeqsUpTo(TemplateProps, MaxProps)
    /\ prev \in SeqsUpTo(StoredProps, MaxProps)
    /\ merged = <<>>
    /\ rpc = "idle" /\ code = <<>> /\ msg = "" /\ rendered = ""
    /\ calls = [c \in Callers |-> IdleCall]

\* Line 160 on the template pure and the persisted list prev.
mergeStep ==
    /\ mpc = "ready"
    /\ merged' = MergeProperties(pure, prev)
    /\ mpc' = "done"
    /\ UNCHANGED <<uri, _cache, store, inflight, detachSync, nextObj, held, last, pure, prev,
                   renderVars, calls>>

MergeNext == mergeStep

SpecMerge == MergeInit /\ [][MergeNext]_vars

----------------------------------------------------------------------------
(* Specification of error rendering on given errors *)

\* The code argument: left out, empty, a code of the taxonomy, or another text.
CodeArgs == {<<>>} \cup {<<c>> : c \in ErrorCodes \cup {"", "E_XX_NONE"}}

\* The msg argument: empty, a code of the taxonomy (as the registry's throws pass
\* it), or a free text.
MsgArgs == ErrorCodes \cup {"", "port 8080 is in use"}

RenderInit ==
    /\ uri = NoUri
    /\ _cache = <<>>
    /\ store = <<>>
    /\ inflight = {}
    /\ detachSync = FALSE
    /\ nextObj = 1
    /\ held = {}
    /\ last = Plain("none", NoError)
    /\ mpc = "idle" /\ pure = <<>> /\ prev = <<>> /\ merged = <<>>
    /\ rpc = "ready"
    /\ code \in CodeArgs
    /\ msg \in MsgArgs
    /\ rendered = ""
    /\ calls = [c \in Callers |-> IdleCall]

\* toString() of new ApplicationError(msg, code).
render ==
    /\ rpc = "ready"
    /\ rendered' = toString(ApplicationError(msg, code))
    /\ rpc' = "done"
    /\ UNCHANGED <<uri, _cache, store, inflight, detachSync, nextObj, held, last, mergeVars,
                   code, msg, calls>>

RenderNext == render

SpecRender == RenderInit /\ [][RenderNext]_vars

----------------------------------------------------------------------------
(* Specification of two loadFromConfigurations calls that overlap *)

\* Lines 127-128: the call is made and readConfigFile() reads the persisted list.
LoadRead(c, exactly) ==
    /\ calls[c].pc = "idle"
    /\ c = "second" => calls["first"].pc # "idle"
    /\ calls' = [calls EXCEPT ![c] = [@ EXCEPT !.pc = "read", !.exactly = exactly,
                                                !.config = readConfigFile(store)]]
    /\ UNCHANGED <<uri, _cache, store, inflight, detachSync, nextObj, held, last,
                   mergeVars, renderVars>>

\* The call resumes with config: lines 129-137, and with no record to prune
\* lines 139-141 at once. The forEach calls detachConfigApplication for every
\* record without appPath; line 132 then suspends for one tick.
LoadPrune(c) ==
    LET call == calls[c]
        cache0 == ClearIfExactly(_cache, call.exactly)
        issued == EmptyPathIds(call.config)
        appConfigs == Selected(call.config, cache0)
    IN  /\ call.pc = "read"
        /\ _cache' = cache0
        /\ IF issued = {}
           THEN /\ calls' = [calls EXCEPT ![c] =
                                [@ EXCEPT !.appConfigs = appConfigs,
                                          !.pc = AfterSelection(appConfigs, <<>>)]]
                /\ UNCHANGED <<store, inflight>>
           ELSE /\ calls' = [calls EXCEPT ![c] = [@ EXCEPT !.pc = "select"]]
                /\ store' = IF detachSync THEN DetachAll(store, issued) ELSE store
                /\ inflight' = IF detachSync THEN inflight ELSE inflight \cup issued
        /\ UNCHANGED <<uri, detachSync, nextObj, held, last, mergeVars, renderVars>>

\* The tick of line 132 is over: lines 139-141.
LoadSelect(c) ==
    LET call == calls[c]
        appConfigs == Selected(Pruned(call.config, detachSync), _cache)
    IN  /\ call.pc = "select"
        /\ calls' = [calls EXCEPT ![c] =
                        [@ EXCEPT !.appConfigs = appConfigs,
                                  !.pc = AfterSelection(appConfigs, <<>>)]]
        /\ UNCHANGED <<uri, _cache, store, inflight, detachSync, nextObj, held, last,
                       mergeVars, renderVars>>

\* One iteration of the for loop (line 146): _initializeApplication of the next
\* selected record resolves or rejects.
LoadInit(c) ==
    LET call == calls[c]
        tempConf == call.appConfigs[Len(call.apps) + 1]
    IN  /\ call.pc = "init"
        /\ \E initOk \in BOOLEAN :
              LET r == _initializeApplication(uri, tempConf, nextObj, initOk)
                  apps == call.apps \o r.app
                  objs == call.objs \cup (IF r.constructed = 1 THEN {nextObj} ELSE {})
              IN  /\ nextObj' = nextObj + r.constructed
                  /\ calls' = [calls EXCEPT ![c] =
                                  [@ EXCEPT !.apps = apps, !.objs = objs, !.err = r.err,
                                            !.pc = IF r.err # NoError THEN "failed"
                                                   ELSE AfterSelection(call.appConfigs, apps)]]
        /\ UNCHANGED <<uri, _cache, store, inflight, detachSync, held, last,
                       mergeVars, renderVars>>

\* Line 149: writeConfigApplication(apps.map(app => app.config)) replaces the
\* persisted list, or rejects and leaves it.
LoadWrite(c) ==
    LET call == calls[c]
        configs == Configs(call.apps)
    IN  /\ call.pc = "write"
        /\ \E ok \in BOOLEAN :
              /\ store' = IF ok THEN writeConfigApplication(store, configs) ELSE store
              /\ calls' = [calls EXCEPT ![c] =
                              [@ EXCEPT !.pc = AfterWrite(ok),
                                        !.written = IF ok THEN <<configs>> ELSE <<>>,
                                        !.err = IF ok THEN NoError ELSE InaccessibleResources]]
        /\ UNCHANGED <<uri, _cache, inflight, detachSync, nextObj, held, last,
                       mergeVars, renderVars>>

\* Lines 150-151: the call resumes after the write-back and commits.
LoadCommit(c) ==
    LET call == calls[c]
    IN  /\ call.pc = "commit"
        /\ _cache' = setAppsToContainerResult(_cache, call.apps)
        /\ calls' = [calls EXCEPT ![c] = [@ EXCEPT !.pc = "done"]]
        /\ UNCHANGED <<uri, store, inflight, detachSync, nextObj, held, last,
                       mergeVars, renderVars>>

\* Persisted lists as the store keeps them: no id names two records.
UniquePersistedLists ==
    {apps \in PersistedLists :
        \A i, j \in 1..Len(apps) : apps[i].id = apps[j].id => i = j}

\* The workspace location is set; nothing is cached yet.
OverlapInit ==
    /\ uri \in Uris
    /\ _cache = <<>>
    /\ store \in UniquePersistedLists
    /\ inflight = {}
    /\ detachSync \in BOOLEAN
    /\ nextObj = 1
    /\ held = {}
    /\ last = Plain("initialize", NoError)
    /\ mpc = "idle" /\ pure = <<>> /\ prev = <<>> /\ merged = <<>>
    /\ rpc = "idle" /\ code = <<>> /\ msg = "" /\ rendered = ""
    /\ calls = [c \in Callers |-> IdleCall]

OverlapNext ==
    \/ \E c \in Callers, exactly \in BOOLEAN : LoadRead(c, exactly)
    \/ \E c \in Callers : LoadPrune(c)
    \/ \E c \in Callers : LoadSelect(c)
    \/ \E c \in Callers : LoadInit(c)
    \/ \E c \in Callers : LoadWrite(c)
    \/ \E c \in Callers : LoadCommit(c)
    \/ \E id \in Ids : DetachLands(id)

SpecOverlap == OverlapInit /\ [][OverlapNext]_vars

----------------------------------------------------------------------------
(* Properties *)

CachedIds(cache) == {getId(cache[i]) : i \in 1..Len(cache)}

StoredIds(apps) == {apps[j].id : j \in 1..Len(apps)}

CallArgs == TypeTags \X (Ids \cup {NoId})

\* The step is a createApplication(type, id) call.
CreateStep(type, id) ==
    /\ last'.op = "createApplication"
    /\ createApplication(type, id)

\* The step is a loadFromConfigurations(exactly) call.
LoadStep(exactly) ==
    /\ last'.op = "loadFromConfigurations"
    /\ last'.exactly = exactly
    /\ loadFromConfigurations(exactly)

\* C7: with the workspace location set, createApplication with a tag that has no
\* registered factory throws NoValidAppType, constructs nothing and leaves the
\* cache as it was.
UnregisteredKindFails ==
    [][(last'.op = "createApplication" /\ uri # NoUri) =>
          \A a \in (TypeTags \ AppTypes) \X (Ids \cup {NoId}) :
             CreateStep(a[1], a[2])
                 => /\ last'.err = NoValidAppType
                    /\ _cache' = _cache
                    /\ held' = held
                    /\ nextObj' = nextObj]_vars

UnregisteredKindFailed ==
    /\ uri # NoUri
    /\ _cache # <<>>
    /\ last.op = "createApplication"
    /\ last.err = NoValidAppType

\* C8: while the workspace location is unset, every createApplication call throws
\* NotFoundWorkspace and constructs no handle, whatever the kind and the id; and
\* so does every loadFromConfigurations call that selects at least one record.
WorkspacePrecondition ==
    [][uri = NoUri =>
          /\ \A a \in CallArgs :
                CreateStep(a[1], a[2])
                    => /\ last'.err = NotFoundWorkspace
                       /\ held' = held
                       /\ nextObj' = nextObj
          /\ \A exactly \in BOOLEAN :
                (/\ \E j \in 1..Len(store) :
                        /\ store[j].appPath # EmptyPath
                        /\ exactly \/ store[j].id \notin CachedIds(_cache)
                 /\ LoadStep(exactly))
                    => /\ last'.err = NotFoundWorkspace
                       /\ last'.inited = {}
                       /\ nextObj' = nextObj]_vars

CreatedBeforeInitialize ==
    /\ uri = NoUri
    /\ last.op = "createApplication"
    /\ last.err = NotFoundWorkspace
    /\ nextObj = 1

\* C9: no step other than reset and loadFromConfigurations(true) removes, moves or
\* replaces a cached handle: the cache before the step is a prefix, object by
\* object, of the cache after it.
SameObjectPrefix(before, after) ==
    /\ Len(before) <= Len(after)
    /\ \A i \in 1..Len(before) :
          /\ after[i].obj = before[i].obj
          /\ getId(after[i]) = getId(before[i])

NoSilentEviction ==
    [][\/ SameObjectPrefix(_cache, _cache')
       \/ ~(\/ \E a \in CallArgs : CreateStep(a[1], a[2])
            \/ LoadStep(FALSE)
            \/ \E apps \in SeqsUpTo(held, MaxApps) : setAppsToContainer(apps)
            \/ \E id \in Ids : getApplication(id)
            \/ getApplications)]_vars

\* A handle a caller registered is still first after a merge-mode load added one.
KeptThroughLoad ==
    /\ Len(_cache) = 2
    /\ _cache[1].inits = 0
    /\ _cache[2].inits = 1
    /\ last.op = "loadFromConfigurations"
    /\ ~last.exactly
    /\ last.err = NoError

\* C6: after loadFromConfigurations(true) every cached handle has the id of a
\* record of the list the call read, and none of the handles cached before the
\* call is still cached.
ExactlyMode ==
    [][LoadStep(TRUE)
          => /\ CachedIds(_cache') \subseteq StoredIds(store)
             /\ \A i \in 1..Len(_cache'), j \in 1..Len(_cache) :
                   _cache'[i].obj # _cache[j].obj]_vars

ExactlyReplaced ==
    /\ last.op = "loadFromConfigurations"
    /\ last.exactly
    /\ last.cleared > 0
    /\ last.err = NoError
    /\ _cache # <<>>

\* C1: a loadFromConfigurations(false) that follows a successful
\* loadFromConfigurations(false), nothing else having called the registry in
\* between, leaves the cache as it was (same handles, same order, ids distinct),
\* and invokes init for no id that was cached; it throws only if its write-back
\* is rejected.
DistinctIds(cache) ==
    \A i, j \in 1..Len(cache) : getId(cache[i]) = getId(cache[j]) => i = j

IdempotentReconciliation ==
    [][(/\ last.op = "loadFromConfigurations"
        /\ ~last.exactly
        /\ last.err = NoError
        /\ LoadStep(FALSE))
           => /\ _cache' = _cache
              /\ DistinctIds(_cache')
              /\ last'.err \in {NoError, InaccessibleResources}
              /\ last'.inited \cap CachedIds(_cache) = {}]_vars

\* The second of two merge-mode loads has run: the handles loaded by the first
\* are cached, the second initialized nothing and wrote back an empty list.
ReconciledTwice ==
    /\ detachSync
    /\ _cache # <<>>
    /\ \A i \in 1..Len(_cache) : _cache[i].inits = 1
    /\ store = <<>>
    /\ last.op = "loadFromConfigurations"
    /\ ~last.exactly
    /\ last.err = NoError
    /\ last.inited = {}

\* C2: loadFromConfigurations calls detachConfigApplication with the id of every
\* persisted record whose appPath is empty, and when it has returned no handle
\* with such an id is cached, unless one was cached before the call. (Ids that
\* also name a record with an appPath are left out of the second part.)
OnlyEmptyPathIds(apps) ==
    {id \in StoredIds(apps) :
        \A j \in 1..Len(apps) : apps[j].id = id => apps[j].appPath = EmptyPath}

Pruning ==
    [][\A exactly \in BOOLEAN :
          (LoadStep(exactly) /\ last'.err = NoError)
              => /\ last'.detached = EmptyPathIds(store)
                 /\ \A id \in OnlyEmptyPathIds(store) :
                       id \notin CachedIds(_cache) => id \notin CachedIds(_cache')]_vars

\* C3: when init() rejects for one selected record, every other record of the
\* list that has an appPath and whose id was not cached is cached when the call
\* finishes: at most the failing record's id is missing.
InitFailureIsNotFatal ==
    [][\A exactly \in BOOLEAN :
          (LoadStep(exactly) /\ last'.err = NotAvailablePort)
              => Cardinality({id \in StoredIds(store) :
                                 /\ \E j \in 1..Len(store) :
                                       store[j].id = id /\ store[j].appPath # EmptyPath
                                 /\ exactly \/ id \notin CachedIds(_cache)
                                 /\ id \notin CachedIds(_cache')}) <= 1]_vars

\* C10: when a loadFromConfigurations(false) has returned, the persisted list
\* holds, for every handle a load put in the cache, a record with the handle's
\* id and the handle's changeable property values. (Stated for calls that find
\* no record to prune and no detach in flight.)
ChangeableValues(properties) ==
    {<<properties[k].key, properties[k].value>> :
        k \in {n \in 1..Len(properties) : properties[n].changeable}}

PersistedFor(apps, app) ==
    \E j \in 1..Len(apps) :
        /\ apps[j].id = getId(app)
        /\ ChangeableValues(apps[j].properties) = ChangeableValues(app.config.properties)

ReloadKeepsPersistedRecords ==
    [][(/\ inflight = {}
        /\ EmptyPathIds(store) = {}
        /\ LoadStep(FALSE)
        /\ last'.err = NoError)
          => \A i \in 1..Len(_cache') :
                _cache'[i].inits > 0 => PersistedFor(store', _cache'[i])]_vars

\* C4 as claimed: a successful loadFromConfigurations sets the config of a cached
\* handle whose id names a persisted record with an appPath to that record's
\* config (its type and appPath at least), and does not invoke init on it.
UpsertVsConstructOnLoad ==
    [][\A exactly \in BOOLEAN :
          (~exactly /\ LoadStep(exactly) /\ last'.err = NoError)
              => \A i \in 1..Len(_cache) :
                    (\E j \in 1..Len(store) :
                        store[j].id = getId(_cache[i]) /\ store[j].appPath # EmptyPath)
                        => /\ _cache'[i].inits = _cache[i].inits
                           /\ \E j \in 1..Len(store) :
                                 /\ store[j].id = getId(_cache[i])
                                 /\ _cache'[i].config.type = store[j].type
                                 /\ _cache'[i].config.appPath = store[j].appPath]_vars

\* C4 as amended: setAppsToContainer replaces the config of a cached handle
\* whose id an incoming handle has (by the config of the last such handle) and
\* nothing else of it, init included; loadFromConfigurations(false) leaves every
\* cached handle as it was, config included, and when it returns the cache holds,
\* after them, exactly one new handle for each not yet cached id of a record
\* with an appPath, on which init was invoked once.
LastWithId(apps, id) ==
    apps[CHOOSE k \in 1..Len(apps) :
            getId(apps[k]) = id /\ \A n \in (k + 1)..Len(apps) : getId(apps[n]) # id]

UpsertVsConstruct ==
    [][/\ last'.op = "setAppsToContainer" =>
             \A apps \in SeqsUpTo(held, MaxApps) :
                setAppsToContainer(apps)
                    => \A i \in 1..Len(_cache) :
                          IF \E k \in 1..Len(apps) : getId(apps[k]) = getId(_cache[i])
                          THEN _cache'[i] =
                                  [_cache[i] EXCEPT
                                      !.config = LastWithId(apps, getId(_cache[i])).config]
                          ELSE _cache'[i] = _cache[i]
       /\ (LoadStep(FALSE) /\ last'.err = NoError)
             => /\ \A i \in 1..Len(_cache) : _cache'[i] = _cache[i]
                /\ \A j \in 1..Len(store) :
                      (store[j].appPath # EmptyPath /\ store[j].id \notin CachedIds(_cache))
                          => \E i \in (Len(_cache) + 1)..Len(_cache') :
                                /\ getId(_cache'[i]) = store[j].id
                                /\ _cache'[i].inits = 1
                                /\ _cache'[i].obj >= nextObj
                                /\ \A n \in 1..Len(_cache') :
                                      getId(_cache'[n]) = store[j].id => n = i]_vars

\* A cached handle took the config of a handle registered under its id: it was
\* loaded from a record (init ran once) and now carries the caller's kind default.
UpsertedConfig ==
    /\ last.op = "setAppsToContainer"
    /\ \E i \in 1..Len(_cache) :
          /\ _cache[i].inits = 1
          /\ _cache[i].type = "TOMCAT"
          /\ _cache[i].config.type = "SPRING_BOOT"

\* C12: in every state reached by initialize, loadFromConfigurations (either
\* mode), setAppsToContainer, reset and the other registry calls, one after the
\* other, no two cached handles have the same id.
CacheIdUniqueness == DistinctIds(_cache)

\* A load initialized two records with the same id (it wrote both configs back)
\* and one handle with that id is cached.
LoadedDuplicateRecord ==
    /\ last.op = "loadFromConfigurations"
    /\ last.err = NoError
    /\ Len(store) = 2
    /\ store[1].id = store[2].id
    /\ Len(_cache) = 1
    /\ getId(_cache[1]) = store[1].id

\* C15: when every handle given to setAppsToContainer has a cached id, the cache
\* keeps its length and, place by place, its handle objects with their status,
\* kind, uri and init count; the handles with an incoming id take the config of
\* the (last) incoming handle with that id, the others are as they were; and
\* no incoming handle object is in the cache.
UpsertPreservesLiveInstance ==
    [][last'.op = "setAppsToContainer" =>
          \A apps \in SeqsUpTo(held, MaxApps) :
             (/\ setAppsToContainer(apps)
              /\ \A k \in 1..Len(apps) : Cached(_cache, getId(apps[k])))
                 => /\ Len(_cache') = Len(_cache)
                    /\ \A i \in 1..Len(_cache) :
                          /\ _cache'[i].obj = _cache[i].obj
                          /\ _cache'[i].status = _cache[i].status
                          /\ _cache'[i].inits = _cache[i].inits
                          /\ _cache'[i].type = _cache[i].type
                          /\ _cache'[i].uri = _cache[i].uri
                          /\ IF \E k \in 1..Len(apps) : getId(apps[k]) = getId(_cache[i])
                             THEN _cache'[i].config = LastWithId(apps, getId(_cache[i])).config
                             ELSE _cache'[i] = _cache[i]
                    /\ \A i \in 1..Len(_cache'), k \in 1..Len(apps) :
                          _cache'[i].obj # apps[k].obj]_vars

\* The first handle constructed is the only one cached and has the config of the
\* second, which a caller registered under its id and which is not cached.
IncomingNotInserted ==
    /\ last.op = "setAppsToContainer"
    /\ nextObj = 3
    /\ held = {}
    /\ Len(_cache) = 1
    /\ _cache[1].obj = 1
    /\ _cache[1].inits = 1
    /\ _cache[1].config.type = "SPRING_BOOT"

\* C17: a createApplication(type, id) that returns leaves the cache as it was and
\* returns a new handle object bound to the workspace uri and, when an id was
\* supplied, to that id; getApplication answers for every id what it answered
\* before, so not-found for the supplied id unless it was cached.
CreateLeavesCache ==
    [][(last'.op = "createApplication" /\ last'.err = NoError /\ held' # held) =>
          \A a \in AppTypes \X (Ids \cup {NoId}) :
             CreateStep(a[1], a[2])
                 => /\ _cache' = _cache
                    /\ \E app \in held' \ held :
                          /\ app.obj = nextObj
                          /\ app.uri = uri
                          /\ app.type = a[1]
                          /\ a[2] # NoId => getId(app) = a[2]
                    /\ \A id \in Ids :
                          getApplicationResult(_cache', id) = getApplicationResult(_cache, id)
                    /\ (a[2] # NoId /\ ~Cached(_cache, a[2]))
                          => getApplicationResult(_cache', a[2]) = <<>>]_vars

\* A handle was created for an id that is not cached while another id is.
CreatedUncached ==
    /\ last.op = "createApplication"
    /\ last.err = NoError
    /\ _cache # <<>>
    /\ \E app \in held : ~Cached(_cache, getId(app)) /\ app.uri = uri

----------------------------------------------------------------------------
(* Properties of the merge *)

\* C5: for each template entry, the merged entry at its place has the value of a
\* persisted entry with that key marked changeable if there is one, and the
\* template's value otherwise.
ChangeablePreservation ==
    mpc = "done" =>
        /\ Len(merged) = Len(pure)
        /\ \A i \in 1..Len(pure) :
              LET changed == {prev[j].value :
                                j \in {n \in 1..Len(prev) :
                                         prev[n].key = pure[i].key /\ prev[n].changeable}}
              IN  /\ merged[i].key = pure[i].key
                  /\ IF changed # {} THEN merged[i].value \in changed
                     ELSE merged[i].value = pure[i].value


\* C14: the merged list has the template's length and, place by place, the
\* template's keys: a persisted key the template lacks is not in it.
OnlyTemplateKeysSurvive ==
    mpc = "done" =>
        /\ Len(merged) = Len(pure)
        /\ \A i \in 1..Len(merged) : merged[i].key = pure[i].key
        /\ \A j \in 1..Len(prev) :
              (\A i \in 1..Len(pure) : pure[i].key # prev[j].key)
                  => \A i \in 1..Len(merged) : merged[i].key # prev[j].key

\* A merge took a persisted value for a template key while the persisted list
\* also had a changeable entry under a key the template lacks.
PersistedKeyDropped ==
    /\ mpc = "done"
    /\ Len(pure) = 1
    /\ Len(prev) = 2
    /\ merged[1].value = 9090
    /\ \E j \in 1..Len(prev) : prev[j].key # pure[1].key /\ prev[j].changeable

----------------------------------------------------------------------------
(* Properties of error rendering *)

\* C18: toString() of an error whose code is given and registered is the code's
\* message, followed by the text in parentheses when the text is not empty;
\* otherwise, when the text is a registered code, that code's message; otherwise
\* the text. So the NotFoundWorkspace and NoValidAppType errors the registry
\* throws (the code as text, no code argument) render as the code's message.
ErrorRendering ==
    rpc = "done" =>
        LET registered == code # <<>> /\ existsCode(code[1])
        IN  /\ (registered /\ msg # "")
                  => rendered = getMessage(code[1]) \o " (" \o msg \o ")"
            /\ (registered /\ msg = "") => rendered = getMessage(code[1])
            /\ (~registered /\ existsCode(msg)) => rendered = getMessage(msg)
            /\ (~registered /\ ~existsCode(msg)) => rendered = msg
            /\ (code = <<>> /\ msg \in {NotFoundWorkspace, NoValidAppType})
                  => rendered = getMessage(msg)

\* The error createApplication throws before initialize has been rendered.
RenderedNotFoundWorkspace ==
    /\ rpc = "done"
    /\ ApplicationError(msg, code) = ApplicationError(Thrown(NotFoundWorkspace).err, <<>>)
    /\ rendered = "message of E_AP_NFWS"

----------------------------------------------------------------------------
(* Properties of overlapping calls *)

CachedObjs == {_cache[i].obj : i \in 1..Len(_cache)}

\* C11: once a call is past the selection pass, none of the records it selected
\* is without appPath (so none such is passed to createApplication or init); and
\* when it invokes writeConfigApplication, no detachConfigApplication it issued
\* is still in flight. (The second part is stated while the other call has
\* issued no detach.)
PrunePrecedesPipeline ==
    \A c \in Callers :
        LET call == calls[c]
        IN  /\ call.pc \in {"init", "write", "commit", "done", "failed"}
                  => \A k \in 1..Len(call.appConfigs) :
                        call.appConfigs[k].appPath # EmptyPath
            /\ (/\ call.pc = "write"
                /\ \A d \in Callers \ {c} : EmptyPathIds(calls[d].config) = {})
                  => EmptyPathIds(call.config) \cap inflight = {}

\* C13: a handle object a call constructed is in the cache only when the call
\* has finished, its writeConfigApplication having resolved with the configs of
\* exactly its new handles, which are those of the selected records in persisted
\* order; line 150 is reached only after that write; and of a call that threw
\* (init or the write-back rejected) no handle object is in the cache.
WriteBackPrecedesCommit ==
    \A c \in Callers :
        LET call == calls[c]
            wrote == /\ call.written = <<Configs(call.apps)>>
                     /\ Len(call.apps) = Len(call.appConfigs)
                     /\ \A k \in 1..Len(call.apps) :
                           getId(call.apps[k]) = call.appConfigs[k].id
                     /\ call.appConfigs =
                           SelectSeq(call.config,
                                     LAMBDA a : \E k \in 1..Len(call.appConfigs) :
                                                   call.appConfigs[k] = a)
        IN  /\ call.objs \cap CachedObjs # {} => (call.pc = "done" /\ wrote)
            /\ call.pc = "commit" => wrote
            /\ call.pc = "failed" => call.objs \cap CachedObjs = {}

\* One call committed its handles; the other initialized its own and threw when
\* its write-back rejected.
CommittedAndRejected ==
    /\ calls["first"].pc = "done"
    /\ calls["first"].objs \cap CachedObjs # {}
    /\ calls["second"].pc = "failed"
    /\ calls["second"].err = InaccessibleResources
    /\ calls["second"].apps # <<>>

\* C16: while loadFromConfigurations(false) calls overlap, no two cached handles
\* have the same id; and when both have returned, every record with an appPath
\* that either of them read has a handle with its id in the cache.
OverlapKeepsCacheUnique ==
    (\A c \in Callers : ~calls[c].exactly) =>
        /\ DistinctIds(_cache)
        /\ (\A c \in Callers : calls[c].pc = "done")
              => \A c \in Callers : \A j \in 1..Len(calls[c].config) :
                    calls[c].config[j].appPath # EmptyPath
                        => Cached(_cache, calls[c].config[j].id)

\* Both calls selected the same record, each constructed and initialized a handle
\* for it, both returned, and one handle is cached.
BothLoadedSameId ==
    /\ \A c \in Callers : calls[c].pc = "done" /\ ~calls[c].exactly
    /\ calls["first"].config = calls["second"].config
    /\ Len(calls["first"].apps) = 1
    /\ Len(calls["second"].apps) = 1
    /\ getId(calls["first"].apps[1]) = getId(calls["second"].apps[1])
    /\ Len(_cache) = 1

====
